---- MODULE Spec2Model ----
(***************************************************************************)
(* CLE_Projects: the two MPI dispatcher/worker programs                    *)
(*   assign2/prog1/main.c  (text processing, chunks of a file)             *)
(*   assign2/prog2/main.c  (matrix determinants, matrices of a file)       *)
(* and the determinant functions of assign3/prog1/matrix_utils_row.cu      *)
(*   getDeterminant   (sequential, partial pivoting)                       *)
(*   calcDeterminants (CUDA kernel, one thread per matrix row).            *)
(*                                                                         *)
(* Spec     : the two MPI programs (variable mode selects the program).    *)
(* LiveSpec : Spec with the fairness of independently running processes.   *)
(* DetSpec  : the two determinant functions applied to one input matrix.   *)
(* LaneSpec : the threads of one block of calcDeterminants, interleaved.    *)
(***************************************************************************)
EXTENDS Integers, Sequences, FiniteSets, TLC

\* ---------------------------------------------------------------- bounds
\* largest MPI world size (rank 0 is the dispatcher, ranks 1..size-1 work)
MaxSize == 3
\* largest number of -f file names on the command line
MaxFiles == 2
\* largest number of matrices in a matrix file
MaxMatrices == 4
\* largest number of full chunks in a text file
MaxChunks == 3
\* the determinant inputs are the integer matrices whose cells have absolute
\* values adding up to at most MaxWeight
MaxWeight == 4
\* the matrices given to the interleaved threads of the kernel are the integer
\* matrices whose cells have absolute values adding up to at most MaxLaneWeight
MaxLaneWeight == 2

\* orders of the determinant inputs
Orders == 1 .. 3

VARIABLES
  \* ---- the run of an MPI program (Spec)
  mode,          \* "text" (assign2/prog1), "matrix" (assign2/prog2); "kernel" in DetSpec
  size,          \* MPI_Comm_size: rank 0 dispatches, ranks 1..size-1 work
  files,         \* the files named on the command line, in order
  dpc,           \* where rank 0 is in main
  workStatus,    \* prog1 workStatus / prog2 WORKSTATUS of rank 0
  nFile,         \* prog1: index of the file in process
  nWorkers,      \* prog1: counter of the sending loop
  i,             \* prog1: counter of the receiving and of the terminating loop
  filesData,     \* prog1: struct fileData per file
  fCk,           \* prog2: index of the file in process
  iter,          \* prog2: round counter of the file
  iterations,    \* prog2
  rest,          \* prog2
  incMCount,     \* prog2: index of the next matrix
  nProc,         \* prog2: counter of the sending, receiving, terminating loops
  matrixFiles,   \* prog2: struct matrixFile per file
  toWorker,      \* messages sent by rank 0 to each worker, not yet received
  toDispatcher,  \* messages sent by each worker to rank 0, not yet received
  wpc,           \* where each worker is in its loop
  wdata,         \* what each worker received for the unit it is processing
  round,         \* history: number of rounds started so far
  log,           \* history: what rank 0 did, in order
  \* ---- determinant functions (DetSpec)
  matrix,        \* the input matrix, rows and columns indexed from 0
  seqResult,     \* what getDeterminant returned for it, or NoResult
  parResult,     \* what calcDeterminants left in determinants[blockIdx.x]
  \* ---- the threads of one block of calcDeterminants (LaneSpec)
  device,        \* global memory: the block's matrix and determinants[blockIdx.x]
  lane,          \* per thread: where it is, its iteration, k, scale, barriers met
  accessed       \* history: per thread, the locations read and written since
                 \* the last barrier

textVars == <<nFile, nWorkers, i, filesData>>
matrixVars == <<fCk, iter, iterations, rest, incMCount, nProc, matrixFiles>>
dispVars == <<dpc, workStatus, nFile, nWorkers, i, filesData,
              fCk, iter, iterations, rest, incMCount, nProc, matrixFiles>>
chanVars == <<toWorker, toDispatcher>>
workerVars == <<wpc, wdata>>
inputVars == <<mode, size, files>>
histVars == <<round, log>>
mpiVars == <<inputVars, dispVars, chanVars, workerVars, histVars>>
laneVars == <<device, lane, accessed>>
detVars == <<matrix, seqResult, parResult, laneVars>>
vars == <<mpiVars, detVars>>

NoResult == [done |-> FALSE]

\* ------------------------------------------------- double arithmetic, exact
\* A double is modelled exactly as a reduced fraction <<num, den>>, den > 0.
\* The result of a division by zero (inf, NaN) and everything computed from
\* it is the single value Undef; every comparison with Undef is false, as
\* every comparison with NaN is.
Undef == <<0, 0>>

IsUndef(x) == x[2] = 0

Abs(n) == IF n < 0 THEN -n ELSE n

RECURSIVE GCD(_, _)
GCD(a, b) == IF b = 0 THEN a ELSE GCD(b, a % b)

Norm(n, d) ==
  LET g == GCD(Abs(n), Abs(d))
      s == IF d < 0 THEN -1 ELSE 1
  IN  <<(s * n) \div g, (s * d) \div g>>

Num(n) == <<n, 1>>

AddV(x, y) ==
  IF IsUndef(x) \/ IsUndef(y) THEN Undef
  ELSE Norm(x[1] * y[2] + y[1] * x[2], x[2] * y[2])

SubV(x, y) ==
  IF IsUndef(x) \/ IsUndef(y) THEN Undef
  ELSE Norm(x[1] * y[2] - y[1] * x[2], x[2] * y[2])

MulV(x, y) ==
  IF IsUndef(x) \/ IsUndef(y) THEN Undef
  ELSE Norm(x[1] * y[1], x[2] * y[2])

DivV(x, y) ==
  IF IsUndef(x) \/ IsUndef(y) \/ y[1] = 0 THEN Undef
  ELSE Norm(x[1] * y[2], x[2] * y[1])

\* The operations as the program performs them: the operands are evaluated
\* once, then the operation is applied to their values.
Strict(S) == CHOOSE e \in S : TRUE
Add(x, y) == Strict({AddV(p[1], p[2]) : p \in {<<x, y>>}})
Sub(x, y) == Strict({SubV(p[1], p[2]) : p \in {<<x, y>>}})
Mul(x, y) == Strict({MulV(p[1], p[2]) : p \in {<<x, y>>}})
Div(x, y) == Strict({DivV(p[1], p[2]) : p \in {<<x, y>>}})

\* fabs(x) < fabs(y)
FabsLess(x, y) ==
  /\ ~IsUndef(x)
  /\ ~IsUndef(y)
  /\ Abs(x[1]) * y[2] < Abs(y[1]) * x[2]

\* x == 0.0
IsZero(x) == ~IsUndef(x) /\ x[1] = 0

\* pow(-1, swaps)
PowMinusOne(swaps) == IF swaps % 2 = 0 THEN Num(1) ELSE Num(-1)

\* the conversion double -> int -> double of an assignment through an int:
\* the fraction is discarded (rounding toward zero)
ToInt(x) ==
  IF IsUndef(x) THEN Undef
  ELSE IF x[1] < 0 THEN Num(-((-x[1]) \div x[2])) ELSE Num(x[1] \div x[2])

\* ------------------------------------------------------------- matrices
Idx(order) == 0 .. (order - 1)

SwapRows(m, a, b) ==
  [r \in DOMAIN m |-> IF r = a THEN m[b] ELSE IF r = b THEN m[a] ELSE m[r]]

\* ------------------------------------------- getDeterminant (sequential)
\* pi is the pivot column, the i of the source
\* state of the function: the matrix being reduced in place, the number of
\* row exchanges, and whether a division had a zero divisor
\* lines 32-47: partial pivoting of column pi, k = from .. order-1
RECURSIVE PartialPivoting(_, _, _, _)
PartialPivoting(st, order, pi, k) ==
  IF k >= order THEN st
  ELSE IF FabsLess(st.m[pi][pi], st.m[k][pi])
       THEN PartialPivoting([st EXCEPT !.m = SwapRows(st.m, pi, k),
                                       !.swaps = st.swaps + 1],
                            order, pi, k + 1)
       ELSE PartialPivoting(st, order, pi, k + 1)

\* lines 49-56: elimination of column pi from the rows k = from .. order-1
RECURSIVE GaussElimination(_, _, _, _)
GaussElimination(st, order, pi, k) ==
  IF k >= order THEN st
  ELSE LET term == Div(st.m[k][pi], st.m[pi][pi])
           rowk == [j \in Idx(order) |->
                      Sub(st.m[k][j], Mul(term, st.m[pi][j]))]
       IN  GaussElimination([st EXCEPT !.m = [st.m EXCEPT ![k] = rowk],
                                       !.zdiv = st.zdiv \/ IsZero(st.m[pi][pi])],
                            order, pi, k + 1)

\* lines 29-57: the loop over the pivot columns pi = from .. order-2
RECURSIVE Reduce(_, _, _)
Reduce(st, order, pi) ==
  IF pi >= order - 1 THEN st
  ELSE Reduce(GaussElimination(PartialPivoting(st, order, pi, pi + 1),
                               order, pi, pi + 1),
              order, pi + 1)

\* lines 59-63: the product of the diagonal
RECURSIVE DiagonalProduct(_, _, _)
DiagonalProduct(m, order, pi) ==
  IF pi >= order THEN Num(1)
  ELSE Mul(m[pi][pi], DiagonalProduct(m, order, pi + 1))

\* the whole run of getDeterminant: final matrix, swaps, zdiv and the result
getDeterminantRun(order, mat) ==
  LET reduced == Reduce([m |-> mat, swaps |-> 0, zdiv |-> FALSE], order, 0)
  IN  [m |-> reduced.m, swaps |-> reduced.swaps, zdiv |-> reduced.zdiv,
       det |-> Mul(PowMinusOne(reduced.swaps),
                   DiagonalProduct(reduced.m, order, 0))]

getDeterminant(order, mat) == getDeterminantRun(order, mat).det

\* ------------------------------------- calcDeterminants (CUDA kernel)
\* line 100: the test compares the ADDRESS matrix + k*order + iteration with
\* 0, not the cell: it is true for every k
CellAddressNonNull(m, k, iteration) == TRUE

\* lines 98-112: the first k in iteration+1 .. order-1 passing the test of
\* line 100, or order when the loop ends without a swap
RECURSIVE FindSwapRow(_, _, _, _)
FindSwapRow(m, order, iteration, k) ==
  IF k >= order THEN order
  ELSE IF CellAddressNonNull(m, k, iteration) THEN k
       ELSE FindSwapRow(m, order, iteration, k + 1)

\* lines 103-108: the exchange of rows k and iteration through the int temp:
\* row k receives row iteration, row iteration receives (int) of row k
SwapThroughTemp(m, order, k, iteration) ==
  [r \in Idx(order) |->
     IF r = k THEN m[iteration]
     ELSE IF r = iteration THEN [j \in Idx(order) |-> ToInt(m[k][j])]
     ELSE m[r]]

\* lines 90-125: the thread with threadIdx.x = iteration
\* ks is the kernel state [m, det]: the shared matrix and determinants[blockIdx.x]
PivotPhase(ks, order, iteration) ==
  LET found == IF IsZero(ks.m[iteration][iteration])
               THEN FindSwapRow(ks.m, order, iteration, iteration + 1)
               ELSE order
      switchedRows == found < order
      m1 == IF switchedRows THEN SwapThroughTemp(ks.m, order, found, iteration)
            ELSE ks.m
      pivot == m1[iteration][iteration]
      d1 == IF iteration = 0 THEN pivot ELSE Mul(ks.det, pivot)
      d2 == IF switchedRows THEN Mul(d1, Num(-1)) ELSE d1
  IN  [m |-> m1, det |-> d2]

\* lines 129-140: what the thread of row t > iteration writes into its row
EliminateRow(m, order, iteration, t) ==
  LET pivot == m[iteration][iteration]
      scale == Div(m[t][iteration], pivot)
  IN  [k \in Idx(order) |->
         IF k > iteration THEN Sub(m[t][k], Mul(scale, m[iteration][k]))
         ELSE m[t][k]]

\* lines 127-142: between the two barriers every thread t > iteration
\* rewrites its own row from the pivot row, which no thread writes
EliminationPhase(ks, order, iteration) ==
  [ks EXCEPT !.m = [t \in Idx(order) |->
                      IF t > iteration
                      THEN EliminateRow(ks.m, order, iteration, t)
                      ELSE ks.m[t]]]

\* lines 88-143
RECURSIVE KernelIterations(_, _, _)
KernelIterations(ks, order, iteration) ==
  IF iteration >= order THEN ks
  ELSE KernelIterations(
         EliminationPhase(PivotPhase(ks, order, iteration), order, iteration),
         order, iteration + 1)

\* determinants[blockIdx.x] after the kernel, for the block's matrix
calcDeterminants(order, mat) ==
  KernelIterations([m |-> mat, det |-> Undef], order, 0).det

\* ================================================= the MPI programs (Spec)
\* prog1 probConst.h: the two values of workStatus
FILES_IN_PROCESSING == 1
ALL_FILES_PROCESSED == 0
\* prog2 lines 92 and 194: the two values of WORKSTATUS
WORK_AVAILABLE == 1
NO_MORE_WORK == 0
\* stdio.h
EOF == -1
\* the separator stored in previousCh when a file is begun (line 195)
SPACE == 32

Workers == 1 .. (size - 1)
numFiles == Len(files)

\* ------------------------------------------------------------ the inputs
\* A text file is read as `full` chunks of the requested length followed by
\* the end of the file: either a last read shorter than requested
\* (ending = "short") or, after the last full chunk, the end-of-file
\* character found by getChunkSizeAndLastChar (ending = "eof").
TextFileSet ==
  {[opens |-> FALSE, full |-> 0, ending |-> "short"]}
  \cup {[opens |-> TRUE, full |-> n, ending |-> "short"] : n \in 0 .. MaxChunks}
  \cup {[opens |-> TRUE, full |-> n, ending |-> "eof"] : n \in 1 .. MaxChunks}

\* the bytes of the n-th full chunk of a file, n = 1, 2, ...:  "ab\n", "e b\t"
FullChunk(n) == IF n % 2 = 1 THEN <<97, 98, 10>> ELSE <<101, 32, 98, 9>>
\* the bytes of a last, shorter read: "ob"
ShortChunk == <<111, 98>>

\* fread(chunk, 1, maxBytesPerChunk - 7, fp) with pos chunks already read
Fread(fd, pos) == IF pos < fd.full THEN FullChunk(pos + 1) ELSE ShortChunk

\* chunkSize < maxBytesPerChunk - 7
IsShortRead(fd, pos) == pos >= fd.full

\* textProcUtils getChunkSizeAndLastChar: the size of the chunk and the last
\* character of it, EOF when the file ends with this chunk
getChunkSizeAndLastChar(fd, pos, bytes) ==
  [chunkSize  |-> Len(bytes),
   previousCh |-> IF fd.ending = "eof" /\ pos + 1 = fd.full THEN EOF
                  ELSE bytes[Len(bytes)]]

\* textProcUtils processChunk: words, words beginning with a vowel, words
\* ending with a consonant, of the chunk, given the last character of the
\* previous chunk
IsSeparator(c) == c \in {32, 9, 10}
IsVowel(c) == c \in {97, 101, 105, 111, 117, 65, 69, 73, 79, 85}
IsConsonant(c) ==
  /\ (c \in 97 .. 122) \/ (c \in 65 .. 90)
  /\ ~IsVowel(c)

RECURSIVE ScanChunk(_, _, _, _)
ScanChunk(bytes, k, prev, acc) ==
  IF k > Len(bytes) THEN acc
  ELSE LET c == bytes[k]
           starts == IsSeparator(prev) /\ ~IsSeparator(c)
           ends   == ~IsSeparator(prev) /\ IsSeparator(c)
       IN  ScanChunk(bytes, k + 1, c,
             [nWords   |-> acc.nWords + (IF ends THEN 1 ELSE 0),
              nWordsBV |-> acc.nWordsBV + (IF starts /\ IsVowel(c) THEN 1 ELSE 0),
              nWordsEC |-> acc.nWordsEC + (IF ends /\ IsConsonant(prev) THEN 1 ELSE 0)])

processChunk(bytes, previousCh) ==
  ScanChunk(bytes, 1, previousCh, [nWords |-> 0, nWordsBV |-> 0, nWordsEC |-> 0])

\* A matrix file: numMatrix, the order, then the matrices.
MatrixFileSet ==
  {[opens |-> FALSE, numMatrix |-> 0]}
  \cup {[opens |-> TRUE, numMatrix |-> n] : n \in 0 .. MaxMatrices}

\* the matrices of a file, by index 0, 1, ...: [[1,2],[3,4]], [[2,0],[0,2]], ...
FileMatrix(idx) ==
  IF idx % 2 = 0
  THEN (0 :> (0 :> Num(1) @@ 1 :> Num(2)) @@ 1 :> (0 :> Num(3) @@ 1 :> Num(4)))
  ELSE (0 :> (0 :> Num(2) @@ 1 :> Num(0)) @@ 1 :> (0 :> Num(0) @@ 1 :> Num(2)))

FileOrder == Cardinality(DOMAIN FileMatrix(0))

FileLists(S) == UNION {[1 .. n -> S] : n \in 0 .. MaxFiles}

\* ------------------------------------------------------------- messages
\* MPI delivers the messages of one sender to one receiver in the order sent;
\* a message is its value, `what` names the variable it was sent from.
Msg(what, v) == [what |-> what, v |-> v]

Drop(q, n) == SubSeq(q, n + 1, Len(q))

\* ---------------------------------------------------------------- history
\* e: open, openfail, close, dispatch, result, term, report;  w: the worker;
\* f: the file;  u: the unit (chunk or matrix index in the file);  r: the round;
\* a dispatch of prog1 also has sent: the chunk, chunkSize and previousCh sent
Event(e, w, f, u) == [e |-> e, w |-> w, f |-> f, u |-> u, r |-> round]

\* the unit of the last dispatch to worker w
LastUnitOf(w) ==
  LET S == {k \in 1 .. Len(log) : log[k].e = "dispatch" /\ log[k].w = w}
  IN  IF S = {} THEN -1 ELSE log[CHOOSE k \in S : \A j \in S : j <= k].u

\* ------------------------------------------------------ memory not yet set
\* a double of malloc'ed memory that was never assigned
Garbage == <<1, 0>>

NoFileData ==
  [finished |-> FALSE, nWords |-> 0, nWordsBV |-> 0, nWordsEC |-> 0,
   previousCh |-> 0, chunkSize |-> 0, fp |-> "null", pos |-> 0]

NoMatrixFile == [order |-> 0, nMatrix |-> 0, matrixDeterminants |-> <<>>, fp |-> "null"]

NoUnit == [unit |-> FALSE]

\* ---------------------------------------------------------------- Init
Init ==
  /\ mode \in {"text", "matrix"}
  /\ size \in 2 .. MaxSize
  /\ files \in FileLists(IF mode = "text" THEN TextFileSet ELSE MatrixFileSet)
  /\ dpc = "file"
  /\ workStatus = IF mode = "text" THEN FILES_IN_PROCESSING ELSE WORK_AVAILABLE
  /\ nFile = 0 /\ nWorkers = 0 /\ i = 0
  /\ filesData = [f \in 0 .. (numFiles - 1) |-> NoFileData]
  /\ fCk = 0 /\ iter = 0 /\ iterations = 0 /\ rest = 0 /\ incMCount = 0 /\ nProc = 0
  /\ matrixFiles = [f \in 0 .. (numFiles - 1) |-> NoMatrixFile]
  /\ toWorker = [w \in Workers |-> <<>>]
  /\ toDispatcher = [w \in Workers |-> <<>>]
  /\ wpc = [w \in Workers |-> "AwaitingWork"]
  /\ wdata = [w \in Workers |-> NoUnit]
  /\ round = 0
  /\ log = <<>>
  /\ matrix = <<>> /\ seqResult = NoResult /\ parResult = NoResult
  /\ device = <<>> /\ lane = <<>> /\ accessed = <<>>

\* ============================================== prog1: the text dispatcher
\* (mutant) no exit after the message: the processing loop is entered
TAfterOpenFailureGoesOn == "while"

\* line 200: exit(EXIT_FAILURE) ends rank 0
TAfterOpenFailure == "aborted"

\* (mutant) the receiving loop starts with i = 2
TFirstReceiverSkips == 1 + 1

\* line 236: the receiving loop starts with i = 1
TFirstReceiver == 1

\* (mutant) the receiving loop runs while i < nWorkers - 1
TRecvLoopEndsEarly(idx, n) == idx >= n - 1

\* line 236: the receiving loop runs while i < nWorkers
TRecvLoopEnded(idx, n) == idx >= n

\* (mutant) the third MPI_Send is missing
TextResultShort(res) ==
  <<Msg("nWords", res.nWords), Msg("nWordsBV", res.nWordsBV)>>

\* lines 291-293: the three messages of a result
TextResult(res) ==
  <<Msg("nWords", res.nWords), Msg("nWordsBV", res.nWordsBV),
    Msg("nWordsEC", res.nWordsEC)>>

\* (mutant) the receiving loop runs over the whole pool: i < size
TReceiveBoundIsPool(sendCounter, poolSize) == poolSize

\* line 236: the receiving loop runs up to the counter the sending loop left
TReceiveBound(sendCounter, poolSize) == sendCounter

\* (mutant) previousCh is taken after the chunk has been read and recorded
CarryOfChunkAfterRead(recordedBefore, recordedNow) == recordedNow

\* line 215: previousCh is taken from the struct before the chunk is read
CarryOfChunk(recordedBefore, recordedNow) == recordedBefore

\* (mutant) the sending loop goes on to the next worker of a finished file
TNeverBreaksSendLoop(finished) == FALSE

\* line 209: if (finished) { fclose; break; }
TBreaksSendLoop(finished) == finished

\* (mutant) the struct is assigned the result received: = for +=
AccumulateOverwrites(total, received) == received

\* lines 244-246: the result received is added to the total of the file
Accumulate(total, received) == total + received

\* lines 187-201: the next file is begun: its struct is initialised, it is opened
TOpen ==
  /\ mode = "text" /\ dpc = "file" /\ nFile < numFiles
  /\ LET ok == files[nFile + 1].opens
     IN  /\ filesData' = [filesData EXCEPT ![nFile] =
                            [NoFileData EXCEPT !.previousCh = SPACE,
                                               !.fp = IF ok THEN "open" ELSE "null"]]
         /\ dpc' = IF ok THEN "while" ELSE TAfterOpenFailure
         /\ log' = Append(log, Event(IF ok THEN "open" ELSE "openfail", 0, nFile, 0))
  /\ UNCHANGED <<inputVars, workStatus, nFile, nWorkers, i, matrixVars,
                 chanVars, workerVars, round, detVars>>

\* line 204, file not finished: a round begins
TRoundStart ==
  /\ mode = "text" /\ dpc = "while" /\ ~filesData[nFile].finished
  /\ nWorkers' = 1
  /\ dpc' = "send"
  /\ round' = round + 1
  /\ UNCHANGED <<inputVars, workStatus, nFile, i, filesData, matrixVars,
                 chanVars, workerVars, log, detVars>>

\* line 204, file finished: on to the next file (line 187, nFile++)
TFileDone ==
  /\ mode = "text" /\ dpc = "while" /\ filesData[nFile].finished
  /\ nFile' = nFile + 1
  /\ dpc' = "file"
  /\ UNCHANGED <<inputVars, workStatus, nWorkers, i, filesData, matrixVars,
                 chanVars, workerVars, histVars, detVars>>

\* lines 215-233: a chunk is read and sent to worker nWorkers
TSendChunk ==
  /\ mode = "text" /\ dpc = "send" /\ nWorkers < size
  /\ ~TBreaksSendLoop(filesData[nFile].finished)
  /\ LET fd == files[nFile + 1]
         st == filesData[nFile]
         bytes == Fread(fd, st.pos)
         got == getChunkSizeAndLastChar(fd, st.pos, bytes)
         previousCh == CarryOfChunk(st.previousCh, got.previousCh)
         st1 == IF IsShortRead(fd, st.pos)
                THEN [st EXCEPT !.chunkSize = Len(bytes), !.finished = TRUE,
                                !.pos = st.pos + 1]
                ELSE [st EXCEPT !.chunkSize = got.chunkSize,
                                !.previousCh = got.previousCh,
                                !.pos = st.pos + 1]
         st2 == IF st1.previousCh = EOF THEN [st1 EXCEPT !.finished = TRUE] ELSE st1
     IN  /\ filesData' = [filesData EXCEPT ![nFile] = st2]
         /\ toWorker' = [toWorker EXCEPT ![nWorkers] =
                           @ \o <<Msg("workStatus", workStatus),
                                  Msg("chunk", bytes),
                                  Msg("chunkSize", st2.chunkSize),
                                  Msg("previousCh", previousCh)>>]
         /\ log' = Append(log, Event("dispatch", nWorkers, nFile, st.pos)
                                  @@ [sent |-> [chunk |-> bytes,
                                                chunkSize |-> st2.chunkSize,
                                                previousCh |-> previousCh]])
  /\ nWorkers' = nWorkers + 1
  /\ UNCHANGED <<inputVars, dpc, workStatus, nFile, i, matrixVars,
                 toDispatcher, workerVars, round, detVars>>

\* lines 209-213: the file is finished and workers remain: fclose, break
TCloseBreak ==
  /\ mode = "text" /\ dpc = "send" /\ nWorkers < size
  /\ TBreaksSendLoop(filesData[nFile].finished)
  /\ filesData' = [filesData EXCEPT ![nFile].fp = "closed"]
  /\ log' = Append(log, Event("close", 0, nFile, 0))
  /\ i' = TFirstReceiver
  /\ dpc' = "recv"
  /\ UNCHANGED <<inputVars, workStatus, nFile, nWorkers, matrixVars,
                 chanVars, workerVars, round, detVars>>

\* line 207: the sending loop ends with nWorkers = size
TSendLoopEnd ==
  /\ mode = "text" /\ dpc = "send" /\ nWorkers >= size
  /\ i' = TFirstReceiver
  /\ dpc' = "recv"
  /\ UNCHANGED <<inputVars, workStatus, nFile, nWorkers, filesData, matrixVars,
                 chanVars, workerVars, histVars, detVars>>

\* lines 236-247: the three results of worker i are received and added
TRecvResults ==
  /\ mode = "text" /\ dpc = "recv" /\ ~TRecvLoopEnded(i, TReceiveBound(nWorkers, size))
  /\ Len(toDispatcher[i]) >= 3
  /\ LET q == toDispatcher[i]
     IN  /\ filesData' = [filesData EXCEPT
                            ![nFile].nWords = Accumulate(@, q[1].v),
                            ![nFile].nWordsBV = Accumulate(@, q[2].v),
                            ![nFile].nWordsEC = Accumulate(@, q[3].v)]
         /\ toDispatcher' = [toDispatcher EXCEPT ![i] = Drop(q, 3)]
         /\ log' = Append(log, Event("result", i, nFile, LastUnitOf(i)))
  /\ i' = i + 1
  /\ UNCHANGED <<inputVars, dpc, workStatus, nFile, nWorkers, matrixVars,
                 toWorker, workerVars, round, detVars>>

\* line 236: the receiving loop ends, back to the test of line 204
TRoundEnd ==
  /\ mode = "text" /\ dpc = "recv" /\ TRecvLoopEnded(i, TReceiveBound(nWorkers, size))
  /\ dpc' = "while"
  /\ UNCHANGED <<inputVars, workStatus, textVars, matrixVars,
                 chanVars, workerVars, histVars, detVars>>

\* lines 187, 252: no file is left
TAllFilesDone ==
  /\ mode = "text" /\ dpc = "file" /\ nFile >= numFiles
  /\ workStatus' = ALL_FILES_PROCESSED
  /\ i' = 1
  /\ dpc' = "term"
  /\ UNCHANGED <<inputVars, nFile, nWorkers, filesData, matrixVars,
                 chanVars, workerVars, histVars, detVars>>

\* lines 254-255: worker i is told that all files are processed
TSendTerminate ==
  /\ mode = "text" /\ dpc = "term" /\ i < size
  /\ toWorker' = [toWorker EXCEPT ![i] = Append(@, Msg("workStatus", workStatus))]
  /\ log' = Append(log, Event("term", i, nFile, 0))
  /\ i' = i + 1
  /\ UNCHANGED <<inputVars, dpc, workStatus, nFile, nWorkers, filesData,
                 matrixVars, toDispatcher, workerVars, round, detVars>>

\* lines 254-264, 301-302: the results of every file are printed, rank 0 ends
RECURSIVE Reports(_, _)
Reports(f, n) ==
  IF f >= n THEN <<>> ELSE <<Event("report", 0, f, 0)>> \o Reports(f + 1, n)

TPrintResults ==
  /\ mode = "text" /\ dpc = "term" /\ i >= size
  /\ log' = log \o Reports(0, numFiles)
  /\ dpc' = "done"
  /\ UNCHANGED <<inputVars, workStatus, textVars, matrixVars,
                 chanVars, workerVars, round, detVars>>

\* ------------------------------------------------- prog1: a worker
\* lines 280-286: the flag is received; with work, the chunk, its size and
\* the previous character are received
TWorkerRecv(w) ==
  /\ mode = "text" /\ wpc[w] = "AwaitingWork"
  /\ Len(toWorker[w]) >= 1
  /\ LET q == toWorker[w]
     IN  IF q[1].v = ALL_FILES_PROCESSED
         THEN /\ wpc' = [wpc EXCEPT ![w] = "Terminated"]
              /\ toWorker' = [toWorker EXCEPT ![w] = Drop(q, 1)]
              /\ UNCHANGED wdata
         ELSE /\ Len(q) >= 4
              /\ wpc' = [wpc EXCEPT ![w] = "Processing"]
              /\ wdata' = [wdata EXCEPT ![w] =
                             [unit |-> TRUE, chunk |-> q[2].v,
                              chunkSize |-> q[3].v, previousCh |-> q[4].v]]
              /\ toWorker' = [toWorker EXCEPT ![w] = Drop(q, 4)]
  /\ UNCHANGED <<inputVars, dispVars, toDispatcher, histVars, detVars>>

\* lines 289-297: the chunk is processed, the three results are sent
TWorkerReply(w) ==
  /\ mode = "text" /\ wpc[w] = "Processing"
  /\ LET d == wdata[w]
         res == processChunk(SubSeq(d.chunk, 1, d.chunkSize), d.previousCh)
     IN  toDispatcher' = [toDispatcher EXCEPT ![w] = @ \o TextResult(res)]
  /\ wpc' = [wpc EXCEPT ![w] = "AwaitingWork"]
  /\ wdata' = [wdata EXCEPT ![w] = NoUnit]
  /\ UNCHANGED <<inputVars, dispVars, toWorker, histVars, detVars>>

\* ============================================ prog2: the matrix dispatcher
\* line 143: return 1 ends rank 0
MAfterOpenFailure == "aborted"

\* (mutant) the receiving loop runs while nProc < nMatrixToRead - 1
MRecvLoopEndsEarly(idx, n) == idx >= n - 1

\* line 181: the receiving loop runs while nProc < nMatrixToRead
MRecvLoopEnded(idx, n) == idx >= n

\* (mutant) the receiving loop starts with nProc = 2
MFirstReceiverSkips == 1 + 1

\* line 181: the receiving loop starts with nProc = 1
MFirstReceiver == 1

\* (mutant) break for return 1: after a failed open the loop over the files
\* is left and the workers are told that there is no more work
MFileLoopLeftByBreakToo(pc, next, count) ==
  pc = MAfterOpenFailure \/ (pc = "file" /\ next >= count)

\* line 136: fCk < numFiles fails: the loop over the files is over
MFileLoopLeft(pc, next, count) == pc = "file" /\ next >= count

\* (mutant) the terminating loop starts with nProc = 2
MFirstToTerminateSkips == 1 + 1

\* line 195: the terminating loop starts with nProc = 1
MFirstToTerminate == 1

\* (mutant) if (curWorkStatus != 0) break
MWorkerBreaksOnWork(curWorkStatus) == curWorkStatus # NO_MORE_WORK

\* line 205: if (curWorkStatus == 0) break
MWorkerBreaks(curWorkStatus) == curWorkStatus = NO_MORE_WORK

\* lines 165-166
nMatrixToRead == IF iter = iterations THEN rest ELSE size

\* lines 136-163: the next file is opened, its header read, its rounds planned
MOpen ==
  /\ mode = "matrix" /\ dpc = "file" /\ fCk < numFiles
  /\ LET fd == files[fCk + 1]
         numMatrix == fd.numMatrix
     IN  IF fd.opens
         THEN /\ matrixFiles' = [matrixFiles EXCEPT ![fCk] =
                   [order |-> FileOrder, nMatrix |-> numMatrix,
                    matrixDeterminants |-> [x \in 0 .. (numMatrix - 1) |-> Garbage],
                    fp |-> "open"]]
              /\ rest' = numMatrix % size
              /\ iterations' = (numMatrix - (numMatrix % size)) \div size
              /\ incMCount' = 0
              /\ iter' = 0
              /\ dpc' = "iter"
              /\ log' = Append(log, Event("open", 0, fCk, 0))
         ELSE /\ dpc' = MAfterOpenFailure
              /\ log' = Append(log, Event("openfail", 0, fCk, 0))
              /\ UNCHANGED <<matrixFiles, rest, iterations, incMCount, iter>>
  /\ UNCHANGED <<inputVars, workStatus, textVars, fCk, nProc,
                 chanVars, workerVars, round, detVars>>

\* line 164, iter < iterations + 1: a round begins
MIterStart ==
  /\ mode = "matrix" /\ dpc = "iter" /\ iter < iterations + 1
  /\ nProc' = 1
  /\ dpc' = "send"
  /\ round' = round + 1
  /\ UNCHANGED <<inputVars, workStatus, textVars, fCk, iter, iterations, rest,
                 incMCount, matrixFiles, chanVars, workerVars, log, detVars>>

\* line 164, loop ended: on to the next file (line 136, fCk++)
MFileDone ==
  /\ mode = "matrix" /\ dpc = "iter" /\ iter >= iterations + 1
  /\ fCk' = fCk + 1
  /\ dpc' = "file"
  /\ UNCHANGED <<inputVars, workStatus, textVars, iter, iterations, rest,
                 incMCount, nProc, matrixFiles, chanVars, workerVars,
                 histVars, detVars>>

\* lines 168-177: the next matrix is read and sent to worker nProc
MSendMatrix ==
  /\ mode = "matrix" /\ dpc = "send" /\ nProc < nMatrixToRead
  /\ toWorker' = [toWorker EXCEPT ![nProc] =
                    @ \o <<Msg("WORKSTATUS", workStatus),
                           Msg("order", matrixFiles[fCk].order),
                           Msg("incMCount", incMCount),
                           Msg("matrix", FileMatrix(incMCount))>>]
  /\ log' = Append(log, Event("dispatch", nProc, fCk, incMCount))
  /\ incMCount' = incMCount + 1
  /\ nProc' = nProc + 1
  /\ UNCHANGED <<inputVars, dpc, workStatus, textVars, fCk, iter, iterations,
                 rest, matrixFiles, toDispatcher, workerVars, round, detVars>>

\* line 168: the sending loop ends
MSendLoopEnd ==
  /\ mode = "matrix" /\ dpc = "send" /\ nProc >= nMatrixToRead
  /\ nProc' = MFirstReceiver
  /\ dpc' = "recv"
  /\ UNCHANGED <<inputVars, workStatus, textVars, fCk, iter, iterations, rest,
                 incMCount, matrixFiles, chanVars, workerVars, histVars, detVars>>

\* lines 181-189: the index and the determinant of worker nProc are received,
\* the determinant is stored at the index
MRecvResult ==
  /\ mode = "matrix" /\ dpc = "recv" /\ ~MRecvLoopEnded(nProc, nMatrixToRead)
  /\ Len(toDispatcher[nProc]) >= 2
  /\ LET q == toDispatcher[nProc]
         curMatrixNumber == q[1].v
         determinant == q[2].v
     IN  /\ matrixFiles' = [matrixFiles EXCEPT
                              ![fCk].matrixDeterminants[curMatrixNumber] = determinant]
         /\ toDispatcher' = [toDispatcher EXCEPT ![nProc] = Drop(q, 2)]
         /\ log' = Append(log, Event("result", nProc, fCk, curMatrixNumber))
  /\ nProc' = nProc + 1
  /\ UNCHANGED <<inputVars, dpc, workStatus, textVars, fCk, iter, iterations,
                 rest, incMCount, toWorker, workerVars, round, detVars>>

\* line 181: the receiving loop ends (line 164, iter++)
MRecvLoopEnd ==
  /\ mode = "matrix" /\ dpc = "recv" /\ MRecvLoopEnded(nProc, nMatrixToRead)
  /\ iter' = iter + 1
  /\ dpc' = "iter"
  /\ UNCHANGED <<inputVars, workStatus, textVars, fCk, iterations, rest,
                 incMCount, nProc, matrixFiles, chanVars, workerVars,
                 histVars, detVars>>

\* lines 136, 193-195: no file is left
MAllFilesDone ==
  /\ mode = "matrix" /\ MFileLoopLeft(dpc, fCk, numFiles)
  /\ workStatus' = NO_MORE_WORK
  /\ nProc' = MFirstToTerminate
  /\ dpc' = "term"
  /\ UNCHANGED <<inputVars, textVars, fCk, iter, iterations, rest, incMCount,
                 matrixFiles, chanVars, workerVars, histVars, detVars>>

\* lines 195-197: worker nProc is told that there is no more work
MSendTerminate ==
  /\ mode = "matrix" /\ dpc = "term" /\ nProc < size
  /\ toWorker' = [toWorker EXCEPT ![nProc] = Append(@, Msg("WORKSTATUS", workStatus))]
  /\ log' = Append(log, Event("term", nProc, fCk, 0))
  /\ nProc' = nProc + 1
  /\ UNCHANGED <<inputVars, dpc, workStatus, textVars, fCk, iter, iterations,
                 rest, incMCount, matrixFiles, toDispatcher, workerVars,
                 round, detVars>>

\* lines 195, 229: rank 0 ends
MExit ==
  /\ mode = "matrix" /\ dpc = "term" /\ nProc >= size
  /\ dpc' = "done"
  /\ UNCHANGED <<inputVars, workStatus, textVars, matrixVars,
                 chanVars, workerVars, histVars, detVars>>

\* ------------------------------------------------- prog2: a worker
\* lines 204-212: the flag is received; with work, the order, the index and
\* the matrix are received
MWorkerRecv(w) ==
  /\ mode = "matrix" /\ wpc[w] = "AwaitingWork"
  /\ Len(toWorker[w]) >= 1
  /\ LET q == toWorker[w]
     IN  IF MWorkerBreaks(q[1].v)
         THEN /\ wpc' = [wpc EXCEPT ![w] = "Terminated"]
              /\ toWorker' = [toWorker EXCEPT ![w] = Drop(q, 1)]
              /\ UNCHANGED wdata
         ELSE /\ Len(q) >= 4
              /\ wpc' = [wpc EXCEPT ![w] = "Processing"]
              /\ wdata' = [wdata EXCEPT ![w] =
                             [unit |-> TRUE, order |-> q[2].v,
                              matrixIndex |-> q[3].v, matrix |-> q[4].v]]
              /\ toWorker' = [toWorker EXCEPT ![w] = Drop(q, 4)]
  /\ UNCHANGED <<inputVars, dispVars, toDispatcher, histVars, detVars>>

\* lines 216-219: the determinant is calculated, index and determinant sent
MWorkerReply(w) ==
  /\ mode = "matrix" /\ wpc[w] = "Processing"
  /\ LET d == wdata[w]
         det == getDeterminant(d.order, d.matrix)
     IN  toDispatcher' = [toDispatcher EXCEPT ![w] =
                            @ \o <<Msg("matrixIndex", d.matrixIndex),
                                   Msg("det", det)>>]
  /\ wpc' = [wpc EXCEPT ![w] = "AwaitingWork"]
  /\ wdata' = [wdata EXCEPT ![w] = NoUnit]
  /\ UNCHANGED <<inputVars, dispVars, toWorker, histVars, detVars>>

\* ------------------------------------------------------------ Spec
Dispatcher ==
  \/ TOpen \/ TRoundStart \/ TFileDone \/ TSendChunk \/ TCloseBreak
  \/ TSendLoopEnd \/ TRecvResults \/ TRoundEnd \/ TAllFilesDone
  \/ TSendTerminate \/ TPrintResults
  \/ MOpen \/ MIterStart \/ MFileDone \/ MSendMatrix \/ MSendLoopEnd
  \/ MRecvResult \/ MRecvLoopEnd \/ MAllFilesDone \/ MSendTerminate \/ MExit

Worker(w) ==
  \/ TWorkerRecv(w) \/ TWorkerReply(w) \/ MWorkerRecv(w) \/ MWorkerReply(w)

Next == Dispatcher \/ \E w \in Workers : Worker(w)

Spec == Init /\ [][Next]_vars

\* rank 0 and every worker are processes of their own: each runs whenever
\* it is not blocked in a receive
LiveSpec ==
  /\ Spec
  /\ WF_vars(Dispatcher)
  /\ \A w \in 1 .. (MaxSize - 1) : WF_vars(w \in Workers /\ Worker(w))

\* ------------------------------------------------------------ FaultSpec
\* Rank 0 takes the index of a reply from the message (line 184), whatever
\* process sent it.  In FaultSpec a process of rank w may answer the matrix it
\* was given with another index of the file in process instead of the index
\* it received.
MWorkerReplyWrongIndex(w) ==
  /\ mode = "matrix" /\ wpc[w] = "Processing"
  /\ LET d == wdata[w]
         det == getDeterminant(d.order, d.matrix)
     IN  \E idx \in 0 .. (matrixFiles[fCk].nMatrix - 1) :
           /\ idx # d.matrixIndex
           /\ toDispatcher' = [toDispatcher EXCEPT ![w] =
                                 @ \o <<Msg("matrixIndex", idx), Msg("det", det)>>]
  /\ wpc' = [wpc EXCEPT ![w] = "AwaitingWork"]
  /\ wdata' = [wdata EXCEPT ![w] = NoUnit]
  /\ UNCHANGED <<inputVars, dispVars, toWorker, histVars, detVars>>

FaultNext == Next \/ \E w \in Workers : MWorkerReplyWrongIndex(w)

FaultSpec == Init /\ [][FaultNext]_vars

\* ------------------------------------------------------------ DetSpec
\* the sequences of len integers whose absolute values add up to at most w
RECURSIVE CellSeqs(_, _)
CellSeqs(len, w) ==
  IF len = 0 THEN {<<>>}
  ELSE UNION {{<<v>> \o s : s \in CellSeqs(len - 1, w - Abs(v))} : v \in (-w) .. w}

\* row-major layout: cell (r, c) is at offset r * order + c
Matrices(order) ==
  {[r \in Idx(order) |-> [c \in Idx(order) |-> Num(s[r * order + c + 1])]] :
     s \in CellSeqs(order * order, MaxWeight)}

OrderOf(m) == Cardinality(DOMAIN m)

DetInit ==
  /\ \E order \in Orders : matrix \in Matrices(order)
  /\ seqResult = NoResult
  /\ parResult = NoResult
  /\ mode = "kernel" /\ size = 1 /\ files = <<>>
  /\ dpc = "none" /\ workStatus = 0
  /\ nFile = 0 /\ nWorkers = 0 /\ i = 0 /\ filesData = <<>>
  /\ fCk = 0 /\ iter = 0 /\ iterations = 0 /\ rest = 0 /\ incMCount = 0 /\ nProc = 0
  /\ matrixFiles = <<>>
  /\ toWorker = <<>> /\ toDispatcher = <<>> /\ wpc = <<>> /\ wdata = <<>>
  /\ round = 0 /\ log = <<>>
  /\ device = <<>> /\ lane = <<>> /\ accessed = <<>>

\* a call of getDeterminant(order, matrix) on a copy of the input
CallGetDeterminant ==
  /\ ~seqResult.done
  /\ seqResult' = [done |-> TRUE, run |-> getDeterminantRun(OrderOf(matrix), matrix)]
  /\ UNCHANGED <<mpiVars, matrix, parResult, laneVars>>

\* a launch of calcDeterminants on a copy of the input, one block
LaunchCalcDeterminants ==
  /\ ~parResult.done
  /\ parResult' = [done |-> TRUE, det |-> calcDeterminants(OrderOf(matrix), matrix)]
  /\ UNCHANGED <<mpiVars, matrix, seqResult, laneVars>>

DetNext == CallGetDeterminant \/ LaunchCalcDeterminants

DetSpec == DetInit /\ [][DetNext]_vars

\* ------------------------------------------------------------ LaneSpec
\* One block of calcDeterminants: the threads threadIdx.x = 0 .. order-1 (one
\* per row of the block's matrix) run the loop of lines 88-143 in any
\* interleaving; __syncthreads() holds a thread until every thread of the
\* block has arrived.
LaneMatrices(order) ==
  {[r \in Idx(order) |-> [c \in Idx(order) |-> Num(s[r * order + c + 1])]] :
     s \in CellSeqs(order * order, MaxLaneWeight)}

Lanes == DOMAIN lane

\* memory locations: the cell (r, c) of the matrix, determinants[blockIdx.x]
Cell(r, c) == <<r, c>>
DetSlot == <<"determinants">>
RowCells(order, r) == {Cell(r, c) : c \in Idx(order)}

NoAccess == [r |-> {}, w |-> {}]

Touch(acc, reads, writes) == [r |-> acc.r \cup reads, w |-> acc.w \cup writes]

\* (mutant) if (threadIdx.x >= iteration)
LaneEliminatesPivotRowToo(t, iteration) == t >= iteration

\* line 129: if (threadIdx.x > iteration)
LaneEliminates(t, iteration) == t > iteration

\* (mutant) a thread leaves the loop once its own row has been the pivot row
LaneLoopGoesOnToOwnRow(t, iteration, order) == iteration <= t

\* line 88: iteration < order, with the order every thread read at line 79
LaneLoopGoesOn(t, iteration, order) == iteration < order

\* lines 90-125: the locations the thread of the pivot step reads and writes
PivotAccesses(m, order, iteration) ==
  LET found == IF IsZero(m[iteration][iteration])
               THEN FindSwapRow(m, order, iteration, iteration + 1)
               ELSE order
      swapped == IF found < order
                 THEN RowCells(order, found) \cup RowCells(order, iteration)
                 ELSE {}
  IN  [r |-> {Cell(iteration, iteration)} \cup swapped
             \cup (IF iteration > 0 \/ found < order THEN {DetSlot} ELSE {}),
       w |-> swapped \cup {DetSlot}]

LaneInit ==
  /\ \E order \in Orders : matrix \in LaneMatrices(order)
  /\ device = [m |-> matrix, det |-> Garbage]
  /\ lane = [t \in Idx(OrderOf(matrix)) |->
               [pc |-> "pivot", iteration |-> 0, k |-> 0, scale |-> Garbage,
                barriers |-> 0]]
  /\ accessed = [t \in Idx(OrderOf(matrix)) |-> NoAccess]
  /\ seqResult = NoResult
  /\ parResult = NoResult
  /\ mode = "kernel" /\ size = 1 /\ files = <<>>
  /\ dpc = "none" /\ workStatus = 0
  /\ nFile = 0 /\ nWorkers = 0 /\ i = 0 /\ filesData = <<>>
  /\ fCk = 0 /\ iter = 0 /\ iterations = 0 /\ rest = 0 /\ incMCount = 0 /\ nProc = 0
  /\ matrixFiles = <<>>
  /\ toWorker = <<>> /\ toDispatcher = <<>> /\ wpc = <<>> /\ wdata = <<>>
  /\ round = 0 /\ log = <<>>

\* lines 90-127, threadIdx.x == iteration: the pivot step, then the barrier
LanePivot(t) ==
  /\ lane[t].pc = "pivot" /\ t = lane[t].iteration
  /\ device' = PivotPhase(device, OrderOf(matrix), lane[t].iteration)
  /\ accessed' = [accessed EXCEPT ![t] =
       LET a == PivotAccesses(device.m, OrderOf(matrix), lane[t].iteration)
       IN  Touch(@, a.r, a.w)]
  /\ lane' = [lane EXCEPT ![t].pc = "sync1", ![t].barriers = @ + 1]
  /\ UNCHANGED <<mpiVars, matrix, seqResult, parResult>>

\* lines 90, 127, threadIdx.x != iteration: straight to the barrier
LaneNoPivot(t) ==
  /\ lane[t].pc = "pivot" /\ t # lane[t].iteration
  /\ lane' = [lane EXCEPT ![t].pc = "sync1", ![t].barriers = @ + 1]
  /\ UNCHANGED <<mpiVars, matrix, seqResult, parResult, device, accessed>>

\* lines 129-136: the pivot and the cell of the own row in the pivot column
\* are read, scale is computed, k = iteration + 1
LaneScale(t) ==
  /\ lane[t].pc = "elim" /\ LaneEliminates(t, lane[t].iteration)
  /\ LET it == lane[t].iteration
     IN  /\ lane' = [lane EXCEPT ![t].scale = Div(device.m[t][it], device.m[it][it]),
                                 ![t].k = it + 1,
                                 ![t].pc = "loop"]
         /\ accessed' = [accessed EXCEPT ![t] =
                           Touch(@, {Cell(it, it), Cell(t, it)}, {})]
  /\ UNCHANGED <<mpiVars, matrix, seqResult, parResult, device>>

\* lines 129, 142: a thread of a row at or above the pivot row has nothing to
\* eliminate: on to the second barrier
LaneNoElimination(t) ==
  /\ lane[t].pc = "elim" /\ ~LaneEliminates(t, lane[t].iteration)
  /\ lane' = [lane EXCEPT ![t].pc = "sync2", ![t].barriers = @ + 1]
  /\ UNCHANGED <<mpiVars, matrix, seqResult, parResult, device, accessed>>

\* line 138: row[k] -= scale * pivotRow[k]
LaneEliminateCell(t) ==
  /\ lane[t].pc = "loop" /\ lane[t].k < OrderOf(matrix)
  /\ LET it == lane[t].iteration
         k == lane[t].k
     IN  /\ device' = [device EXCEPT !.m[t][k] =
                         Sub(device.m[t][k], Mul(lane[t].scale, device.m[it][k]))]
         /\ accessed' = [accessed EXCEPT ![t] =
                           Touch(@, {Cell(t, k), Cell(it, k)}, {Cell(t, k)})]
  /\ lane' = [lane EXCEPT ![t].k = @ + 1]
  /\ UNCHANGED <<mpiVars, matrix, seqResult, parResult>>

\* lines 136, 142: the loop over k ends, the second barrier
LaneLoopEnd(t) ==
  /\ lane[t].pc = "loop" /\ lane[t].k >= OrderOf(matrix)
  /\ lane' = [lane EXCEPT ![t].pc = "sync2", ![t].barriers = @ + 1]
  /\ UNCHANGED <<mpiVars, matrix, seqResult, parResult, device, accessed>>

\* __syncthreads(), lines 127 and 142: every thread of the block has arrived;
\* each goes on, after the second barrier with iteration++ and the test of
\* line 88
AfterBarrier(t, l, order) ==
  IF l.pc = "sync1" THEN [l EXCEPT !.pc = "elim"]
  ELSE [l EXCEPT !.iteration = @ + 1,
                 !.pc = IF LaneLoopGoesOn(t, l.iteration + 1, order)
                        THEN "pivot" ELSE "exit"]

BarrierRelease ==
  /\ \A t \in Lanes : lane[t].pc \in {"sync1", "sync2"}
  /\ lane' = [t \in Lanes |-> AfterBarrier(t, lane[t], OrderOf(matrix))]
  /\ accessed' = [t \in Lanes |-> NoAccess]
  /\ UNCHANGED <<mpiVars, matrix, seqResult, parResult, device>>

LaneNext ==
  \/ BarrierRelease
  \/ \E t \in Lanes : LanePivot(t)
  \/ \E t \in Lanes : LaneNoPivot(t)
  \/ \E t \in Lanes : LaneScale(t)
  \/ \E t \in Lanes : LaneNoElimination(t)
  \/ \E t \in Lanes : LaneEliminateCell(t)
  \/ \E t \in Lanes : LaneLoopEnd(t)

LaneSpec == LaneInit /\ [][LaneNext]_vars

\* the threads of a block that can run are run: some thread that is not held
\* at a barrier takes its step, and a barrier every thread has reached opens
LaneLiveSpec == LaneSpec /\ WF_vars(LaneNext)

\* ================================================================ claims
\* ------------------------------------------------ reading the history
CurFile == IF mode = "text" THEN nFile ELSE fCk

LogIdx == 1 .. Len(log)

\* positions of the events e of file f
At(e, f) == {k \in LogIdx : log[k].e = e /\ log[k].f = f}

\* positions of the events e of unit u of file f
AtUnit(e, f, u) == {k \in At(e, f) : log[k].u = u}

\* positions of the events e of worker w
AtWorker(e, w) == {k \in LogIdx : log[k].e = e /\ log[k].w = w}

\* units dispatched to worker w and not yet answered
Outstanding(w) ==
  Cardinality(AtWorker("dispatch", w)) - Cardinality(AtWorker("result", w))

AllFilesOpen == \A k \in 1 .. numFiles : files[k].opens

ChannelsEmpty ==
  \A w \in Workers : toWorker[w] = <<>> /\ toDispatcher[w] = <<>>

IsFlag(m) == m.what \in {"workStatus", "WORKSTATUS"}

IsTerminalFlag(m) == IsFlag(m) /\ m.v \in {ALL_FILES_PROCESSED, NO_MORE_WORK}

\* C1: matrix dispatcher: when the dispatcher has finished a file, every
\* index in [0, numMatrices) has been dispatched exactly once and has had
\* exactly one determinant written into matrixDeterminants, the determinant
\* of the matrix at that index of the file.
C1_EveryMatrixOnce ==
  mode = "matrix" =>
    \A f \in 0 .. (fCk - 1) : \A idx \in 0 .. (files[f + 1].numMatrix - 1) :
      /\ Cardinality(AtUnit("dispatch", f, idx)) = 1
      /\ Cardinality(AtUnit("result", f, idx)) = 1
      /\ matrixFiles[f].matrixDeterminants[idx] =
           getDeterminant(FileOrder, FileMatrix(idx))

\* C2: in both dispatchers, when the processing loop of an input has been
\* left, every unit dispatched for it has exactly one result received and
\* merged, and at the moment the loop is left no unit is in flight.
C2_EveryUnitAnswered ==
  /\ \A f \in 0 .. (CurFile - 1) :
       /\ Cardinality(At("dispatch", f)) = Cardinality(At("result", f))
       /\ \A k \in At("dispatch", f) :
            Cardinality({j \in AtUnit("result", f, log[k].u) : j > k}) = 1
  /\ dpc = "file" =>
       /\ ChannelsEmpty
       /\ \A w \in Workers : wpc[w] = "AwaitingWork" /\ ~wdata[w].unit

C2_Witness ==
  /\ dpc = "file" /\ CurFile = 1
  /\ Cardinality(At("dispatch", 0)) >= 3
  /\ Cardinality(At("result", 0)) >= 3

\* C3: when every input opens, the "all inputs processed" flag is sent to
\* each worker at most once, to every worker once rank 0 has ended, only
\* after every file has been processed and every result received, and after
\* it nothing is sent to that worker: it is the last message and stands alone.
C3_TerminalFlagOnceAndLast ==
  AllFilesOpen =>
    /\ \A w \in Workers :
         /\ Cardinality(AtWorker("term", w)) <= 1
         /\ dpc = "done" => Cardinality(AtWorker("term", w)) = 1
         /\ \A k \in AtWorker("term", w) :
              /\ \A j \in LogIdx : (j > k /\ log[j].w = w) => log[j].e = "report"
              /\ \A j \in LogIdx : log[j].e = "dispatch" =>
                   /\ j < k
                   /\ \E r \in LogIdx : /\ j < r /\ r < k
                                        /\ log[r].e = "result"
                                        /\ log[r].w = log[j].w
              /\ CurFile = numFiles
         /\ \A k \in 1 .. Len(toWorker[w]) :
              IsTerminalFlag(toWorker[w][k]) => k = Len(toWorker[w])
         /\ Cardinality({k \in 1 .. Len(toWorker[w]) : IsFlag(toWorker[w][k])}) * 4
              = Len(toWorker[w])
                + 3 * Cardinality({k \in 1 .. Len(toWorker[w]) :
                                     IsTerminalFlag(toWorker[w][k])})

C3_Witness ==
  /\ AllFilesOpen /\ dpc = "done" /\ size = 3
  /\ \A w \in Workers : Cardinality(AtWorker("term", w)) = 1
  /\ \A w \in Workers : Cardinality(AtWorker("result", w)) >= 1

\* C4: each worker moves AwaitingWork -> Processing only by receiving a
\* "work available" flag with its payload, Processing -> AwaitingWork only by
\* sending its complete result, AwaitingWork -> Terminated only by receiving
\* the "no more work" flag; Terminated is final; a worker that is not
\* Processing holds no unanswered unit.
ResultLength == IF mode = "text" THEN 3 ELSE 2

C4_WorkerStep(w) ==
  /\ wpc[w] # "Processing" => ~wdata[w].unit
  /\ wpc[w] = "Terminated" => wpc'[w] = "Terminated"
  /\ (wpc[w] = "AwaitingWork" /\ wpc'[w] = "AwaitingWork") =>
       /\ Len(toDispatcher'[w]) <= Len(toDispatcher[w])
       /\ Len(toWorker'[w]) >= Len(toWorker[w])
  /\ (wpc[w] = "AwaitingWork" /\ wpc'[w] = "Processing") =>
       /\ Len(toWorker[w]) >= 4
       /\ IsFlag(toWorker[w][1]) /\ ~IsTerminalFlag(toWorker[w][1])
       /\ toWorker'[w] = Drop(toWorker[w], 4)
       /\ wdata'[w].unit
       /\ toDispatcher'[w] = toDispatcher[w]
  /\ (wpc[w] = "AwaitingWork" /\ wpc'[w] = "Terminated") =>
       /\ IsTerminalFlag(toWorker[w][1])
       /\ toWorker'[w] = Drop(toWorker[w], 1)
       /\ toDispatcher[w] = <<>> /\ toDispatcher'[w] = <<>>
       /\ Outstanding(w) = 0
  /\ wpc[w] = "Processing" =>
       /\ wpc'[w] \in {"Processing", "AwaitingWork"}
       /\ wpc'[w] = "Processing" => Len(toDispatcher'[w]) <= Len(toDispatcher[w])
       /\ wpc'[w] = "AwaitingWork" =>
            /\ Len(toDispatcher'[w]) = Len(toDispatcher[w]) + ResultLength
            /\ ~wdata'[w].unit

C4_WorkerStateMachine ==
  [][\A w \in Workers : C4_WorkerStep(w)]_vars

C4_Witness ==
  /\ size = 3
  /\ \A w \in Workers : wpc[w] = "Terminated"
  /\ \A w \in Workers : Cardinality(AtWorker("result", w)) >= 2

\* C5: in every state of both dispatchers each worker has at most one
\* outstanding unit, so at most as many units are outstanding as there are
\* workers, and for each worker dispatches and results alternate in the
\* history, beginning with a dispatch.
WorkerEvents(w) == {k \in LogIdx : log[k].w = w /\ log[k].e \in {"dispatch", "result"}}

C5_OneOutstandingPerWorker ==
  /\ \A w \in Workers :
       /\ Outstanding(w) \in {0, 1}
       /\ \A k \in WorkerEvents(w) :
            log[k].e = (IF Cardinality({j \in WorkerEvents(w) : j < k}) % 2 = 0
                        THEN "dispatch" ELSE "result")
  /\ Cardinality({k \in LogIdx : log[k].e = "dispatch"})
       - Cardinality({k \in LogIdx : log[k].e = "result"}) <= size - 1

C5_Witness ==
  /\ size = 3
  /\ \A w \in Workers : Outstanding(w) = 1
  /\ \A w \in Workers : Cardinality(AtWorker("result", w)) >= 1

\* C6: round barrier: when a unit is read and dispatched in some round, every
\* unit dispatched in an earlier round has already had its reply received and
\* merged.
C6_RoundBarrier ==
  \A k \in LogIdx : log[k].e = "dispatch" =>
    \A j \in LogIdx : (log[j].e = "dispatch" /\ log[j].r < log[k].r) =>
      \E m \in LogIdx :
        /\ j < m /\ m < k
        /\ log[m].e = "result" /\ log[m].w = log[j].w
        /\ log[m].f = log[j].f /\ log[m].u = log[j].u

C6_Witness ==
  /\ size = 3
  /\ \E j, k \in At("dispatch", 0) :
       /\ log[k].r = log[j].r + 1
       /\ Cardinality({m \in At("dispatch", 0) : log[m].r = log[j].r}) = 2

\* C7: with at least one worker, files that all open and workers that always
\* reply, the run terminates: rank 0 sends the terminal flag to every worker
\* and ends, and every worker reaches Terminated.
RunComplete ==
  /\ dpc = "done"
  /\ \A w \in Workers : wpc[w] = "Terminated"
  /\ \A w \in Workers : Cardinality(AtWorker("term", w)) = 1
  /\ ChannelsEmpty

C7_Terminates == AllFilesOpen ~> RunComplete

C7_Witness ==
  /\ RunComplete /\ size = 2 /\ numFiles = 2
  /\ Cardinality(At("result", 0)) >= 2
  /\ Cardinality(At("result", 1)) >= 2

\* C8: when opening a file fails, rank 0 ends at once: the failed open is the
\* last thing it does, it is not repeated, no unit of that file or of a later
\* file is dispatched, and no result is reported.
C8_OpenFailureAborts ==
  \A k \in LogIdx : log[k].e = "openfail" =>
    /\ k = Len(log)
    /\ dpc = "aborted"
    /\ CurFile = log[k].f
    /\ Cardinality(At("openfail", log[k].f)) = 1
    /\ \A j \in LogIdx : log[j].e = "dispatch" => log[j].f < log[k].f
    /\ \A j \in LogIdx : log[j].e # "report"

C8_Witness ==
  /\ Len(log) > 0 /\ log[Len(log)].e = "openfail" /\ log[Len(log)].f = 1
  /\ Cardinality(At("dispatch", 0)) >= 2
  /\ \A w \in Workers : wpc[w] = "AwaitingWork"

\* C9: for every square matrix of order 1..3 with small integer cells, exact
\* arithmetic and division by zero giving the undefined value, the determinant
\* left by the kernel calcDeterminants equals the determinant returned by the
\* sequential getDeterminant for the same input.
C9_KernelEqualsSequential ==
  (seqResult.done /\ parResult.done) => parResult.det = seqResult.run.det

\* C10: sequential getDeterminant: when the pivot column holds only zeros at
\* and below the pivot row (here: the matrix has a column of zeros), the
\* function returns 0.0 and no division has a zero pivot as divisor.
HasZeroColumn(m) ==
  \E c \in DOMAIN m : \A r \in DOMAIN m : m[r][c] = Num(0)

C10_SingularReturnsZero ==
  (seqResult.done /\ HasZeroColumn(matrix)) =>
    /\ seqResult.run.det = Num(0)
    /\ ~seqResult.run.zdiv

\* C11: for every square matrix of order >= 2 and every pair of distinct rows
\* a, b, getDeterminant of the matrix with rows a and b exchanged returns the
\* negation of getDeterminant of the matrix: the two results compare equal in
\* magnitude and opposite in sign (a comparison with NaN is false).
\* x == -y as the doubles compare
IsNegationOf(x, y) ==
  /\ ~IsUndef(x)
  /\ ~IsUndef(y)
  /\ x = Mul(Num(-1), y)

C11_RowSwapNegates ==
  (seqResult.done /\ OrderOf(matrix) >= 2) =>
    \A a, b \in DOMAIN matrix :
      a # b =>
        IsNegationOf(getDeterminant(OrderOf(matrix), SwapRows(matrix, a, b)),
                     seqResult.run.det)

\* the same law where no division of either run has a zero divisor
C11_RowSwapNegatesWithoutZeroPivot ==
  (seqResult.done /\ OrderOf(matrix) >= 2 /\ ~seqResult.run.zdiv) =>
    \A a, b \in DOMAIN matrix :
      a # b =>
        LET swapped == getDeterminantRun(OrderOf(matrix), SwapRows(matrix, a, b))
        IN  /\ ~swapped.zdiv
            /\ IsNegationOf(swapped.det, seqResult.run.det)

\* C12: row-parallel kernel, every interleaving of the threads of a block:
\* between two consecutive barriers no matrix cell and no determinants[] slot
\* is written by one thread and read or written by another thread; in
\* particular no two threads write the same location and no thread reads a
\* pivot row that another thread is updating.
Conflict(s, t) == accessed[s].w \cap (accessed[t].r \cup accessed[t].w)

C12_NoDataRace ==
  \A s, t \in Lanes : s # t => Conflict(s, t) = {}

\* two threads have eliminated in their rows after a pivot step that swapped
\* rows, reading the same pivot row
C12_Witness ==
  /\ OrderOf(matrix) = 3
  /\ device.m[0] # matrix[0]
  /\ lane[1].iteration = 0 /\ lane[2].iteration = 0
  /\ Cell(1, 2) \in accessed[1].w /\ Cell(2, 2) \in accessed[2].w
  /\ Cell(0, 2) \in accessed[1].r \cap accessed[2].r

\* every interleaving leaves in determinants[blockIdx.x] what the phases of
\* calcDeterminants compute
LanesAgreeWithPhases ==
  (mode = "kernel" /\ Lanes # {} /\ \A t \in Lanes : lane[t].pc = "exit") =>
    device.det = calcDeterminants(OrderOf(matrix), matrix)

\* C13: matrix dispatcher: a reply whose matrix index was not assigned to the
\* replying worker in the current round, or is outside [0, numMatrices), or
\* was already filled, is rejected: every reply that rank 0 has merged into
\* matrixDeterminants carries the index dispatched to that worker in that
\* round, an index of the file, and an index not merged before.
AssignedInRound(k) ==
  \E j \in 1 .. (k - 1) :
    /\ log[j].e = "dispatch"
    /\ log[j].w = log[k].w /\ log[j].r = log[k].r
    /\ log[j].f = log[k].f /\ log[j].u = log[k].u

C13_ProtocolViolationRejected ==
  mode = "matrix" =>
    \A k \in LogIdx : log[k].e = "result" =>
      /\ AssignedInRound(k)
      /\ log[k].u \in 0 .. (files[log[k].f + 1].numMatrix - 1)
      /\ \A j \in 1 .. (k - 1) :
           ~(log[j].e = "result" /\ log[j].f = log[k].f /\ log[j].u = log[k].u)

\* C14: text dispatcher: when a file is finished, its nWords, nWordsBV and
\* nWordsEC are the sums of the results the workers return for exactly the
\* chunks dispatched for that file (processChunk of what each was sent), in
\* every order in which the workers of a round complete; as many results as
\* chunks have been merged for it, none of them a result of another file.
TextFileFinished(f) ==
  \/ f < nFile
  \/ f = nFile /\ f < numFiles /\ dpc = "while" /\ filesData[f].finished

\* what a worker returns for the chunk of the dispatch at position k
ResultOfDispatch(k) ==
  processChunk(SubSeq(log[k].sent.chunk, 1, log[k].sent.chunkSize),
               log[k].sent.previousCh)

RECURSIVE SumOfResults(_)
SumOfResults(S) ==
  IF S = {} THEN [nWords |-> 0, nWordsBV |-> 0, nWordsEC |-> 0]
  ELSE LET k == CHOOSE x \in S : TRUE
           res == ResultOfDispatch(k)
           others == SumOfResults(S \ {k})
       IN  [nWords |-> res.nWords + others.nWords,
            nWordsBV |-> res.nWordsBV + others.nWordsBV,
            nWordsEC |-> res.nWordsEC + others.nWordsEC]

C14_AggregateIsSumOfFileResults ==
  mode = "text" =>
    \A f \in 0 .. (numFiles - 1) : TextFileFinished(f) =>
      LET total == SumOfResults(At("dispatch", f))
      IN  /\ filesData[f].nWords = total.nWords
          /\ filesData[f].nWordsBV = total.nWordsBV
          /\ filesData[f].nWordsEC = total.nWordsEC
          /\ Cardinality(At("result", f)) = Cardinality(At("dispatch", f))
          /\ \A k \in At("result", f) :
               \E j \in AtUnit("dispatch", f, log[k].u) :
                 j < k /\ log[j].w = log[k].w /\ log[j].r = log[k].r

\* two files are finished, each of several chunks shared by two workers, with
\* different totals
C14_Witness ==
  /\ mode = "text" /\ size = 3 /\ nFile = 2
  /\ Cardinality(At("dispatch", 0)) >= 3
  /\ Cardinality(At("dispatch", 1)) >= 2
  /\ filesData[0].nWords >= 2
  /\ filesData[1].nWords >= 1
  /\ filesData[0].nWords # filesData[1].nWords

\* C15: every input file the dispatcher has opened has been closed exactly
\* once when the dispatcher has finished processing that input, for every
\* pool size and number of chunks (also when the final chunk goes to the last
\* worker of a round, and with a single worker).
C15_EveryFileClosedOnce ==
  \A f \in 0 .. (CurFile - 1) :
    At("open", f) # {} =>
      /\ Cardinality(At("close", f)) = 1
      /\ (IF mode = "text" THEN filesData[f].fp ELSE matrixFiles[f].fp) = "closed"

\* C16: inputs are processed strictly one after another: when a unit is read
\* and dispatched, and when a file is opened, every unit dispatched for an
\* earlier file has already been answered and merged, and no unit of an
\* earlier file is dispatched afterwards; the units of one file are
\* dispatched in source order (the n-th dispatch of a file is its unit n-1).
AnsweredBetween(j, k) ==
  \E m \in LogIdx :
    /\ j < m /\ m < k
    /\ log[m].e = "result" /\ log[m].w = log[j].w
    /\ log[m].f = log[j].f /\ log[m].u = log[j].u

C16_InputsOneAfterAnother ==
  \A k \in LogIdx :
    /\ log[k].e = "dispatch" =>
         /\ log[k].u = Cardinality({j \in At("dispatch", log[k].f) : j < k})
         /\ \A j \in 1 .. (k - 1) :
              (log[j].e = "dispatch" /\ log[j].f # log[k].f) =>
                log[j].f < log[k].f /\ AnsweredBetween(j, k)
    /\ log[k].e \in {"open", "openfail"} =>
         \A j \in 1 .. (k - 1) :
           /\ log[j].f < log[k].f
           /\ log[j].e = "dispatch" => AnsweredBetween(j, k)

\* a second file is being dispatched after a first file of several rounds
C16_Witness ==
  /\ size = 3
  /\ Cardinality(At("dispatch", 0)) >= 3
  /\ Cardinality(At("dispatch", 1)) >= 2
  /\ \E w \in Workers : Outstanding(w) = 1

\* the step of thread t is the pivot step of its iteration (lines 90-125)
IsPivotStep(t) ==
  /\ lane[t].pc = "pivot" /\ t = lane[t].iteration
  /\ lane'[t].pc = "sync1"

\* C17: row-parallel kernel, pivot step of iteration i: whenever column i
\* holds a nonzero entry in some row >= i, after the pivot step of thread i
\* matrix[i][i] is nonzero (the row swapped in has a nonzero entry in column
\* i), so that the elimination that follows does not divide by zero.
C17_PivotStepFindsNonzeroPivot ==
  [][\A t \in Lanes :
       (IsPivotStep(t) /\ \E r \in Lanes : r >= t /\ ~IsZero(device.m[r][t]))
         => ~IsZero(device'.m[t][t])]_vars

\* the matrix and determinants[blockIdx.x] of calcDeterminants(order, mat)
\* when the thread of `iteration` begins its pivot step
RECURSIVE KernelStateAt(_, _, _)
KernelStateAt(mat, order, iteration) ==
  IF iteration = 0 THEN [m |-> mat, det |-> Undef]
  ELSE EliminationPhase(
         PivotPhase(KernelStateAt(mat, order, iteration - 1), order, iteration - 1),
         order, iteration - 1)

\* the row k that the pivot step of `iteration` exchanges with row
\* `iteration`, or order when it exchanges none
SwappedRowAt(mat, order, iteration) ==
  LET m == KernelStateAt(mat, order, iteration).m
  IN  IF IsZero(m[iteration][iteration])
      THEN FindSwapRow(m, order, iteration, iteration + 1)
      ELSE order

\* C18: row-parallel kernel: the row swap of a pivot step is an exact exchange:
\* after thread i has swapped rows i and k, row i holds exactly the previous
\* values of row k and row k exactly the previous values of row i, for every
\* cell value, non-integer ones included.
C18_RowSwapIsExactExchange ==
  parResult.done =>
    \A it \in DOMAIN matrix :
      LET order == OrderOf(matrix)
          before == KernelStateAt(matrix, order, it)
          k == SwappedRowAt(matrix, order, it)
          after == PivotPhase(before, order, it)
      IN  k < order =>
            /\ after.m[it] = before.m[k]
            /\ after.m[k] = before.m[it]

\* ---- the run of getDeterminant column by column, with the rows labelled
\* The pivoting loop of column pi (PartialPivoting) applied to the matrix with
\* one more cell per row, the label of the row: labels[r] is the row of the
\* input that is at row r.
TrackedPivoting(st, order, pi) ==
  LET labelled == [st EXCEPT !.m =
                     [r \in Idx(order) |->
                        [c \in 0 .. order |->
                           IF c = order THEN Num(st.labels[r]) ELSE st.m[r][c]]]]
      out == PartialPivoting(labelled, order, pi, pi + 1)
  IN  [out EXCEPT !.m = [r \in Idx(order) |-> [c \in Idx(order) |-> out.m[r][c]]],
                  !.labels = [r \in Idx(order) |-> out.m[r][order][1]]]

\* the state of getDeterminant(order, mat) when the pivoting loop of column
\* pi begins (pi = order - 1: when the loop of line 29 has ended)
RECURSIVE SeqStateAt(_, _, _)
SeqStateAt(mat, order, pi) ==
  IF pi = 0
  THEN [m |-> mat, swaps |-> 0, zdiv |-> FALSE, labels |-> [r \in Idx(order) |-> r]]
  ELSE GaussElimination(
         TrackedPivoting(SeqStateAt(mat, order, pi - 1), order, pi - 1),
         order, pi - 1, pi)

\* fabs(x) >= fabs(y)
FabsGeq(x, y) ==
  /\ ~IsUndef(x)
  /\ ~IsUndef(y)
  /\ Abs(x[1]) * y[2] >= Abs(y[1]) * x[2]

\* labels is a permutation of the rows that moves only rows from .. order-1
PermutesRowsFrom(labels, order, from) ==
  /\ {labels[r] : r \in Idx(order)} = Idx(order)
  /\ \A r \in Idx(order) : r < from => labels[r] = r

\* the parity of a permutation is the parity of its number of inversions
Inversions(labels) ==
  Cardinality({p \in (DOMAIN labels) \X (DOMAIN labels) :
                 p[1] < p[2] /\ labels[p[1]] > labels[p[2]]})

\* after the pivoting loop of column pi: the pivot is largest in |.|, the
\* rows pi .. order-1 are a permutation of what they were, rows above are kept
PivotingLoopCorrect(mat, order, pi) ==
  LET before == SeqStateAt(mat, order, pi)
      after == TrackedPivoting(before, order, pi)
      moved == [r \in Idx(order) |->
                  CHOOSE q \in Idx(order) : before.labels[q] = after.labels[r]]
  IN  /\ \A k \in Idx(order) : k > pi => FabsGeq(after.m[pi][pi], after.m[k][pi])
      /\ PermutesRowsFrom(moved, order, pi)
      /\ \A r \in Idx(order) : after.m[r] = before.m[moved[r]]

\* the sign factor of line 64 is the parity of the permutation of the rows
SignIsParityOfPermutation(run, mat, order) ==
  LET final == SeqStateAt(mat, order, order - 1)
  IN  /\ final.m = run.m /\ final.swaps = run.swaps
      /\ \A r \in Idx(order) : run.m[r] = final.m[r]
      /\ PermutesRowsFrom(final.labels, order, 0)
      /\ PowMinusOne(run.swaps) = PowMinusOne(Inversions(final.labels))
      /\ run.det = Mul(PowMinusOne(Inversions(final.labels)),
                       DiagonalProduct(run.m, order, 0))

\* C19: sequential getDeterminant: after the pivoting loop of column i,
\* |matrix[i][i]| >= |matrix[k][i]| for every k > i and the rows i..order-1
\* are a permutation of what they were before the loop; the sign factor
\* applied to the product of the diagonal is the parity of the whole row
\* permutation performed (one flip per exchange of rows).
C19_PartialPivoting ==
  seqResult.done =>
    /\ \A pi \in 0 .. (OrderOf(matrix) - 2) :
         PivotingLoopCorrect(matrix, OrderOf(matrix), pi)
    /\ SignIsParityOfPermutation(seqResult.run, matrix, OrderOf(matrix))

\* the same for the runs in which no division has a zero divisor
C19_PartialPivotingWithoutZeroPivot ==
  (seqResult.done /\ ~seqResult.run.zdiv) => C19_PartialPivoting

\* C20: text dispatcher, end of input: when a read returns fewer bytes than
\* requested, the chunk read is still dispatched, as the last chunk of the
\* file: nothing more is read or dispatched for the file, and the processing
\* loop of the file is left only when the replies of the round of that chunk
\* have been received.
IsFinalShortDispatch(k) ==
  /\ log[k].e = "dispatch"
  /\ IsShortRead(files[log[k].f + 1], log[k].u)

C20_ShortReadIsFinalChunk ==
  mode = "text" =>
    \A k \in LogIdx : IsFinalShortDispatch(k) =>
      LET f == log[k].f
      IN  /\ log[k].sent.chunk = ShortChunk
          /\ log[k].sent.chunkSize = Len(ShortChunk)
          /\ filesData[f].finished
          /\ filesData[f].pos = log[k].u + 1
          /\ \A j \in LogIdx : (j > k /\ log[j].e = "dispatch") => log[j].f > f
          /\ ~(nFile = f /\ dpc \in {"send", "recv"}) =>
               \A j \in At("dispatch", f) :
                 log[j].r = log[k].r =>
                   \E m \in AtUnit("result", f, log[j].u) :
                     m > j /\ log[m].w = log[j].w /\ log[m].r = log[j].r

\* the short read followed full chunks and went to worker 2 of 2; the loop of
\* the file has been left and a second file is being processed
C20_Witness ==
  /\ mode = "text" /\ size = 3 /\ nFile = 1 /\ dpc = "recv"
  /\ \E k \in At("dispatch", 0) :
       /\ IsFinalShortDispatch(k) /\ log[k].u >= 1 /\ log[k].w = 2
  /\ At("dispatch", 1) # {}

\* C21: text dispatcher, carry character: the previousCh sent with the n-th
\* chunk of a file, n >= 2, is the last character recorded for the (n-1)-th
\* chunk of the same file; the first chunk of every file is sent with the
\* separator space (32), never with a character left by a previous file.
\* what getChunkSizeAndLastChar recorded for chunk u of file f
RecordedLastChar(f, u) ==
  getChunkSizeAndLastChar(files[f + 1], u, Fread(files[f + 1], u)).previousCh

C21_CarryCharacter ==
  mode = "text" =>
    \A k \in LogIdx : log[k].e = "dispatch" =>
      IF log[k].u = 0
      THEN log[k].sent.previousCh = 32
      ELSE /\ log[k].sent.previousCh = RecordedLastChar(log[k].f, log[k].u - 1)
           /\ \E j \in AtUnit("dispatch", log[k].f, log[k].u - 1) : j < k

\* the first chunk of a second file has been sent with a space after a first
\* file whose chunks left other characters, sent as carry within that file
C21_Witness ==
  /\ mode = "text" /\ nFile = 1
  /\ \E k \in At("dispatch", 1) : log[k].u = 0 /\ log[k].sent.previousCh = 32
  /\ \E k \in At("dispatch", 1) : log[k].u = 1 /\ log[k].sent.previousCh # 32
  /\ \E k \in At("dispatch", 0) : log[k].u = 2 /\ log[k].sent.previousCh # 32
  /\ filesData[0].previousCh # 32

\* C22: shrinking final round: in every round the workers rank 0 waits on for
\* a reply are the workers it sent a unit to in that round, each once, the
\* first ones of the pool; when fewer units are dispatched than there are
\* workers, the other workers are sent nothing in that round and are not
\* waited on.
SentIn(rnd) == {log[k].w : k \in {j \in LogIdx : log[j].e = "dispatch" /\ log[j].r = rnd}}

AnsweredIn(rnd) == {log[k].w : k \in {j \in LogIdx : log[j].e = "result" /\ log[j].r = rnd}}

\* the workers the receiving loop in progress runs over
WaitedOn ==
  1 .. ((IF mode = "text" THEN TReceiveBound(nWorkers, size) ELSE nMatrixToRead) - 1)

RoundInProgress == dpc \in {"send", "recv"}

C22_WaitsOnExactlyTheWorkersSent ==
  /\ \A rnd \in 1 .. round :
       /\ SentIn(rnd) = 1 .. Cardinality(SentIn(rnd))
       /\ Cardinality({k \in LogIdx : log[k].e = "dispatch" /\ log[k].r = rnd})
            = Cardinality(SentIn(rnd))
       /\ AnsweredIn(rnd) \subseteq SentIn(rnd)
       /\ (rnd < round \/ ~RoundInProgress) => AnsweredIn(rnd) = SentIn(rnd)
  /\ dpc = "recv" => WaitedOn = SentIn(round)
  /\ RoundInProgress =>
       \A w \in Workers \ SentIn(round) :
         toWorker[w] = <<>> /\ wpc[w] = "AwaitingWork" /\ toDispatcher[w] = <<>>

\* after a round of two workers, a round in which only worker 1 was sent a
\* unit is being received: worker 2 is idle and is not waited on
C22_Witness ==
  /\ size = 3 /\ dpc = "recv" /\ round >= 2
  /\ SentIn(round - 1) = {1, 2}
  /\ SentIn(round) = {1}
  /\ WaitedOn = {1}
  /\ log[Len(log)].e = "result" /\ log[Len(log)].r = round

\* C23: barrier matching of the row-parallel kernel: every thread t of a
\* matrix of order n arrives at exactly two barriers in each of the n
\* iterations, whichever branches it takes; a thread waiting at a barrier
\* waits at the barrier every other thread of the block is at or on its way
\* to, in the same iteration; and every thread leaves the loop, after
\* iteration n-1, having met 2n barriers.
BarriersDue(l) ==
  2 * l.iteration + (CASE l.pc \in {"pivot", "exit"} -> 0
                       [] l.pc \in {"sync1", "elim", "loop"} -> 1
                       [] l.pc = "sync2" -> 2)

LaneWaits(t) == lane[t].pc \in {"sync1", "sync2"}

AllLanesExited == \A t \in Lanes : lane[t].pc = "exit"

BarriersMatch ==
  mode = "kernel" =>
    /\ \A t \in Lanes :
         /\ lane[t].barriers = BarriersDue(lane[t])
         /\ lane[t].iteration <= OrderOf(matrix)
         /\ lane[t].pc = "exit" <=> lane[t].iteration = OrderOf(matrix)
         /\ lane[t].pc = "exit" => lane[t].barriers = 2 * OrderOf(matrix)
    /\ \A t, u \in Lanes :
         LaneWaits(t) =>
           /\ lane[u].iteration = lane[t].iteration
           /\ \/ lane[u].pc = lane[t].pc
              \/ /\ lane[u].barriers = lane[t].barriers - 1
                 /\ ~LaneWaits(u) /\ lane[u].pc # "exit"

C23_BarrierMatching == [](BarriersMatch) /\ <>(AllLanesExited)

\* a block of three threads has left the loop after a run in which the pivot
\* step of iteration 0 took the swap branch; each thread met six barriers
C23_Witness ==
  /\ mode = "kernel" /\ OrderOf(matrix) = 3
  /\ IsZero(matrix[0][0])
  /\ AllLanesExited
  /\ \A t \in Lanes : lane[t].barriers = 6 /\ lane[t].iteration = 3

\* C24: once the opening of a file has failed, rank 0 has ended without
\* telling any worker that there is no more work: no terminating flag is sent
\* or in flight, and every worker is in AwaitingWork with nothing to
\* receive, so it can take no step and never becomes Terminated.
OpenHasFailed == \E k \in LogIdx : log[k].e = "openfail"

C24_OpenFailureStrandsWorkers ==
  OpenHasFailed =>
    /\ \A k \in LogIdx : log[k].e # "term"
    /\ \A w \in Workers :
         /\ wpc[w] = "AwaitingWork"
         /\ toWorker[w] = <<>>
         /\ ~ENABLED Worker(w)
    /\ ~ENABLED Dispatcher

\* the second file of the matrix program could not be opened after both
\* workers had answered matrices of the first file: both wait for a flag
C24_Witness ==
  /\ mode = "matrix" /\ size = 3
  /\ OpenHasFailed /\ fCk = 1
  /\ \A w \in Workers : AtWorker("result", w) # {} /\ wpc[w] = "AwaitingWork"
  /\ \A w \in Workers : toWorker[w] = <<>>

====
